---- MODULE Spec2Model ----
(***************************************************************************)
(* Model of libmot/tracker/DAN/transforms.py: the geometric transforms     *)
(* RandomMirror, Expand, RandomSampleCrop and the ResizeShuffleBoxes stage *)
(* acting on a sample (img_pre, img_next, boxes_pre, boxes_next, labels).  *)
(*                                                                         *)
(* Coordinates are fixed-point numbers: an integer v stands for v / Scale  *)
(* pixels, so that the float draws of the code and its int() truncations   *)
(* are both represented.  An image is abstracted to its height, its width  *)
(* and its horizontal orientation.  An absent image (None) is the record   *)
(* NoImage, absent boxes and absent labels are the empty sequence.         *)
(*                                                                         *)
(* Spec       the chain Expand, RandomSampleCrop, RandomMirror of the       *)
(*            training pipeline, each call one step                        *)
(* SpecShuffle  ResizeShuffleBoxes applied to one sample                   *)
(* SpecTrials   RandomSampleCrop.__call__ trial by trial                   *)
(***************************************************************************)
EXTENDS Integers, Sequences, FiniteSets, TLC

\* ---------------------------------------------------------------- bounds
\* fixed-point resolution: v stands for v / Scale pixels
Scale == 2
\* capacity M of a box set (max_object of the configuration)
MaxObject == 2
\* number of exhausted trial loops followed in the stepwise crop model
MaxRounds == 7
\* constructor arguments are drawn from -MaxArg..MaxArg and the class limits
MaxArg == 3

\* ------------------------------------------------------ program constants
\* range(50): trials per sampling mode
MaxTrials == 50
\* np.inf / float('inf')
inf == 1000000
\* max_expand of the configuration
max_expand == 2
\* denominators of the rational draws of Expand's ratio
RatioDen == 2
\* RandomHue: delta <= 360.0
HueMax == 360
\* RandomBrightness: delta <= 255.0
BrightnessMax == 255

\* ---------------------------------------------------------------- helpers
\* int(v) for v >= 0
int(v) == (v \div Scale) * Scale

Max2(a, b) == IF a >= b THEN a ELSE b
Min2(a, b) == IF a <= b THEN a ELSE b

RECURSIVE SumSeq(_)
SumSeq(s) == IF s = << >> THEN 0 ELSE Head(s) + SumSeq(Tail(s))

\* the subsequence of s at the positions where keep is TRUE (s[keep])
RECURSIVE Select(_, _)
Select(s, keep) ==
    IF s = << >> THEN << >>
    ELSE IF Head(keep) THEN <<Head(s)>> \o Select(Tail(s), Tail(keep))
         ELSE Select(Tail(s), Tail(keep))

Zeros(n) == [i \in 1..n |-> 0]

NoImage == [present |-> FALSE, h |-> 0, w |-> 0, flip |-> FALSE]
Image(h, w) == [present |-> TRUE, h |-> h, w |-> w, flip |-> FALSE]

\* labels.shape
NRows(m) == Len(m)
NCols(m) == IF m = << >> THEN 0 ELSE Len(m[1])

\* ------------------------------------------------------------------- iou
\* libmot.utils.iou of one box (x, y, w, h) against a rectangle
\* (x, y, w, h): the pair (intersection area, union area)
iou(b, r) ==
    LET iw == Max2(0, Min2(b[1] + b[3], r[1] + r[3]) - Max2(b[1], r[1]))
        ih == Max2(0, Min2(b[2] + b[4], r[2] + r[4]) - Max2(b[2], r[2]))
        inter == iw * ih
    IN  [i |-> inter, u |-> b[3] * b[4] + r[3] * r[4] - inter]

\* an overlap is below / above a bound given in hundredths
OverlapLt(o, bound) == o.i * 100 < bound * o.u
OverlapGt(o, bound) == o.i * 100 > bound * o.u

\* ------------------------------------------------------ RandomSampleCrop
\* self.sample_options; a bound None is written NoBound
NoBound == 0 - 1
sample_options ==
    << [whole |-> TRUE,  min_iou |-> NoBound, max_iou |-> NoBound],
       [whole |-> FALSE, min_iou |-> 70,      max_iou |-> NoBound],
       [whole |-> FALSE, min_iou |-> 80,      max_iou |-> NoBound],
       [whole |-> FALSE, min_iou |-> 85,      max_iou |-> NoBound],
       [whole |-> FALSE, min_iou |-> 90,      max_iou |-> NoBound],
       [whole |-> FALSE, min_iou |-> NoBound, max_iou |-> NoBound] >>

\* min_iou, max_iou = mode, None replaced by -inf / +inf
ModeMin(mode) == IF mode.min_iou = NoBound THEN 0 - inf ELSE mode.min_iou
ModeMax(mode) == IF mode.max_iou = NoBound THEN inf ELSE mode.max_iou

\* rect = [int(left), int(top), int(left + w), int(top + h)]
CropRect(w, h, left, top) ==
    <<int(left), int(top), int(left + w), int(top + h)>>

\* image[rect[1]:rect[3], rect[0]:rect[2], :] (a slice is clipped to the array)
SliceImage(image, rect) ==
    [image EXCEPT
        !.h = Max2(0, Min2(rect[4], image.h) - Min2(rect[2], image.h)),
        !.w = Max2(0, Min2(rect[3], image.w) - Min2(rect[1], image.w))]

\* mask = m1 * m2: the center of the box lies strictly inside rect
CenterMask(boxes, rect) ==
    [i \in 1..Len(boxes) |->
        /\ rect[1] * 2 < boxes[i][1] + boxes[i][3]
        /\ rect[2] * 2 < boxes[i][2] + boxes[i][4]
        /\ rect[3] * 2 > boxes[i][1] + boxes[i][3]
        /\ rect[4] * 2 > boxes[i][2] + boxes[i][4]]

\* np.pad(mask, (0, max_object - len(mask)), 'constant')
PadMask(mask, max_object) ==
    mask \o [i \in 1..(max_object - Len(mask)) |-> FALSE]

\* the kept boxes clipped to rect and moved to the crop's origin
ClipBox(b, rect) ==
    << Max2(b[1], rect[1]) - rect[1], Max2(b[2], rect[2]) - rect[2],
       Min2(b[3], rect[3]) - rect[1], Min2(b[4], rect[4]) - rect[2] >>

\* variant of CropRows: the rows of the dropped boxes are set to zero and
\* stay in place
CropRows_zeroed(labels, keep) ==
    [i \in 1..NRows(labels) |->
        IF keep[i] THEN labels[i] ELSE Zeros(NCols(labels))]

\* labels[keep, :] padded with zero rows to h rows
CropRows(labels, keep) ==
    LET kept == Select(labels, keep)
    IN  kept \o [i \in 1..(NRows(labels) - Len(kept)) |-> Zeros(NCols(labels))]

\* labels[:, keep] padded with zero columns to w columns
CropCols(labels, keep) ==
    [i \in 1..NRows(labels) |->
        LET kept == Select(labels[i], keep)
        IN  kept \o Zeros(NCols(labels) - Len(kept))]

\* the IoU test of crop: TRUE when the trial is rejected
OverlapRejected(boxes, min_iou, max_iou, w, h, left, top) ==
    LET overlap == [i \in 1..Len(boxes) |->
                       iou(<<boxes[i][1], boxes[i][2],
                             boxes[i][3] - boxes[i][1],
                             boxes[i][4] - boxes[i][2]>>,
                           <<left, top, w, h>>)]
    IN  /\ \E i \in 1..Len(boxes) : OverlapLt(overlap[i], min_iou)
        /\ \E i \in 1..Len(boxes) : OverlapGt(overlap[i], max_iou)

\* RandomSampleCrop.crop; status "None" is the rejected trial, "ok" the
\* returned triple, any other status the exception raised
crop(image, boxes, labels, min_iou, max_iou, w, h, left, top, isPre, max_object) ==
    LET rect == CropRect(w, h, left, top)
        mask == CenterMask(boxes, rect)
        keep == PadMask(mask, max_object)
        fail(st) == [status |-> st, image |-> image, boxes |-> boxes,
                     labels |-> labels, mask |-> mask]
    IN  IF OverlapRejected(boxes, min_iou, max_iou, w, h, left, top)
          THEN fail("None")
        ELSE IF \A i \in 1..Len(mask) : ~mask[i]
          THEN fail("None")
        ELSE IF Len(mask) > max_object
          THEN fail("ValueError")
        ELSE IF labels = << >>
          THEN fail("AttributeError")
        ELSE IF Len(keep) # (IF isPre THEN NRows(labels) ELSE NCols(labels))
          THEN fail("IndexError")
        ELSE [status |-> "ok",
              image  |-> SliceImage(image, rect),
              boxes  |-> [k \in 1..Len(Select(boxes, mask)) |->
                             ClipBox(Select(boxes, mask)[k], rect)],
              labels |-> IF isPre THEN CropRows(labels, keep)
                                  ELSE CropCols(labels, keep),
              mask   |-> mask]

\* w = random.uniform(0.8 * width, width), on the fixed-point grid
DrawSize(width) == {v \in 1..width : 10 * v >= 8 * width /\ v < width}

\* left = random.uniform(width - w): numpy draws between low = width - w
\* and the default high = 1.0
DrawOffset(width, w) ==
    LET low == width - w
    IN  IF low < Scale THEN low..(Scale - 1)
        ELSE IF low = Scale THEN {Scale}
        ELSE (Scale + 1)..low

\* h / w < 0.5 or h / w > 2
BadAspect(w, h) == 2 * h < w \/ h > 2 * w

\* variant of Trial: frame B is cropped with a rectangle of its own width
Trial_ownRect(s, m, w, h, left, top, max_object) ==
    LET res_pre == crop(s.img_pre, s.boxes_pre, s.labels, ModeMin(m), ModeMax(m),
                        w, h, left, top, TRUE, max_object)
        res_next == crop(s.img_next, s.boxes_next, res_pre.labels, ModeMin(m),
                         ModeMax(m), w - Scale, h, left, top, FALSE, max_object)
        out(st, rej, ip, inx, bp, bn, l) ==
            [status |-> st, rejected |-> rej, img_pre |-> ip, img_next |-> inx,
             boxes_pre |-> bp, boxes_next |-> bn, labels |-> l]
        same(st, rej) == out(st, rej, s.img_pre, s.img_next, s.boxes_pre,
                             s.boxes_next, s.labels)
    IN  IF res_pre.status = "None" THEN same("continue", "pre")
        ELSE IF res_pre.status # "ok" THEN same(res_pre.status, "none")
        ELSE IF s.img_next.present
          THEN IF res_next.status = "None" THEN same("continue", "next")
               ELSE IF res_next.status # "ok" THEN same(res_next.status, "none")
               ELSE out("return", "none", res_pre.image, res_next.image,
                        res_pre.boxes, res_next.boxes, res_next.labels)
        ELSE out("return", "none", res_pre.image, s.img_next, res_pre.boxes,
                 s.boxes_next, s.labels)

\* the trial with the crop of the first frame kept when the crop of the
\* second frame is rejected
Trial_keepsPre(s, m, w, h, left, top, max_object) ==
    LET res_pre == crop(s.img_pre, s.boxes_pre, s.labels, ModeMin(m), ModeMax(m),
                        w, h, left, top, TRUE, max_object)
        res_next == crop(s.img_next, s.boxes_next, res_pre.labels, ModeMin(m),
                         ModeMax(m), w, h, left, top, FALSE, max_object)
        out(st, rej, ip, inx, bp, bn, l) ==
            [status |-> st, rejected |-> rej, img_pre |-> ip, img_next |-> inx,
             boxes_pre |-> bp, boxes_next |-> bn, labels |-> l]
        same(st, rej) == out(st, rej, s.img_pre, s.img_next, s.boxes_pre,
                             s.boxes_next, s.labels)
    IN  IF res_pre.status = "None" THEN same("continue", "pre")
        ELSE IF res_pre.status # "ok" THEN same(res_pre.status, "none")
        ELSE IF s.img_next.present
          THEN IF res_next.status = "None" THEN out("continue", "next", res_pre.image, s.img_next,
                                             res_pre.boxes, s.boxes_next, res_pre.labels)
               ELSE IF res_next.status # "ok" THEN same(res_next.status, "none")
               ELSE out("return", "none", res_pre.image, res_next.image,
                        res_pre.boxes, res_next.boxes, res_next.labels)
        ELSE out("return", "none", res_pre.image, s.img_next, res_pre.boxes,
                 s.boxes_next, s.labels)

\* one pass of the body of the trial loop for the draws (w, h, left, top):
\* "continue" for a rejected trial, "return" with the cropped sample, or
\* the exception raised
Trial(s, m, w, h, left, top, max_object) ==
    LET res_pre == crop(s.img_pre, s.boxes_pre, s.labels, ModeMin(m), ModeMax(m),
                        w, h, left, top, TRUE, max_object)
        res_next == crop(s.img_next, s.boxes_next, res_pre.labels, ModeMin(m),
                         ModeMax(m), w, h, left, top, FALSE, max_object)
        out(st, rej, ip, inx, bp, bn, l) ==
            [status |-> st, rejected |-> rej, img_pre |-> ip, img_next |-> inx,
             boxes_pre |-> bp, boxes_next |-> bn, labels |-> l]
        same(st, rej) == out(st, rej, s.img_pre, s.img_next, s.boxes_pre,
                             s.boxes_next, s.labels)
    IN  IF res_pre.status = "None" THEN same("continue", "pre")
        ELSE IF res_pre.status # "ok" THEN same(res_pre.status, "none")
        ELSE IF s.img_next.present
          THEN IF res_next.status = "None" THEN same("continue", "next")
               ELSE IF res_next.status # "ok" THEN same(res_next.status, "none")
               ELSE out("return", "none", res_pre.image, res_next.image,
                        res_pre.boxes, res_next.boxes, res_next.labels)
        ELSE out("return", "none", res_pre.image, s.img_next, res_pre.boxes,
                 s.boxes_next, s.labels)

\* ------------------------------------------------------------------ Expand
\* ratio = random.uniform(1, max_expand), as the numerator over RatioDen
DrawRatio == RatioDen..(RatioDen * max_expand - 1)

\* int(height * ratio)
ExpandSize(height, num) == ((height * num) \div (RatioDen * Scale)) * Scale

\* the smallest and the largest element of a set of numbers
Extremes(S) == {v \in S : (\A u \in S : v <= u) \/ (\A u \in S : u <= v)}

\* left = random.uniform(0, width * ratio - width); of the grid points the
\* first one that int() truncates and the largest are drawn
DrawShift(width, num) ==
    LET all == {v \in 0..(width * max_expand) :
                   v = 0 \/ v * RatioDen < width * (num - RatioDen)}
    IN  {v \in all : v = 1 \/ (\A u \in all : u <= v)}

\* Expand.expand: the canvas, or the shape error of the assignment of image
\* into the region of height x width at (top, left)
expand(image, height, width, num, left, top) ==
    IF image.h # height \/ image.w # width
      THEN [status |-> "ValueError", image |-> image]
      ELSE [status |-> "ok",
            image |-> [image EXCEPT !.h = ExpandSize(height, num),
                                    !.w = ExpandSize(width, num)]]

\* boxes[:, :2] += (int(left), int(top)); boxes[:, 2:] += (int(left), int(top))
ShiftBoxes(boxes, left, top) ==
    [i \in 1..Len(boxes) |->
        << boxes[i][1] + int(left), boxes[i][2] + int(top),
           boxes[i][3] + int(left), boxes[i][4] + int(top) >>]

\* ------------------------------------------------------------ RandomMirror
\* RandomMirror.mirror
mirror(image, boxes) ==
    [image |-> [image EXCEPT !.flip = ~image.flip],
     boxes |-> [i \in 1..Len(boxes) |->
                  << image.w - boxes[i][1], boxes[i][2],
                     image.w - boxes[i][3], boxes[i][4] >>]]

\* ------------------------------------------------------ ResizeShuffleBoxes
\* the outcomes of np.random.shuffle(np.arange(max_object)), indices from 1
Shuffles(n) ==
    {p \in [1..n -> 1..n] : \A i, j \in 1..n : p[i] = p[j] => i = j}

InfBox == <<inf, inf, inf, inf>>

\* variant of resize_f: the rows of inf are stacked over the boxes
resize_f_front(boxes, max_object) ==
    [i \in 1..(max_object - Len(boxes)) |-> InfBox] \o boxes

\* resize_f: the boxes stacked over max_object - len(boxes) rows of inf
resize_f(boxes, max_object) ==
    boxes \o [i \in 1..(max_object - Len(boxes)) |-> InfBox]

Column(m, j) == [i \in 1..Len(m) |-> m[i][j]]

\* variant of PermuteLabels: rows taken by indexes_next, columns by indexes_pre
PermuteLabels_swapped(l, indexes_pre, indexes_next) ==
    [k \in 1..Len(indexes_pre) |->
        [j \in 1..Len(indexes_next) |-> l[indexes_next[k]][indexes_pre[j]]]]

\* labels[indexes_pre, :][:, indexes_next]
PermuteLabels(l, indexes_pre, indexes_next) ==
    [k \in 1..Len(indexes_pre) |->
        [j \in 1..Len(indexes_next) |-> l[indexes_pre[k]][indexes_next[j]]]]

\* variant of false_object: the entries of invalid slots are left as they are
false_object_unmasked(sums, mask) ==
    [k \in 1..Len(sums) |-> IF sums[k] = 0 THEN 1 ELSE 0]

\* variant of false_object: the entry is 1 for a valid slot that has a match
false_object_matched(sums, mask) ==
    [k \in 1..Len(sums) |-> IF mask[k] /\ sums[k] # 0 THEN 1 ELSE 0]

\* (labels.sum(axis) == 0).astype(float) with the entries of invalid slots
\* set to 0
false_object(sums, mask) ==
    [k \in 1..Len(sums) |-> IF mask[k] /\ sums[k] = 0 THEN 1 ELSE 0]

\* variant of AppendFalseObjects: the row appended ends with 1
AppendFalseObjects_one(l, mask_pre, mask_next) ==
    LET fo_pre  == [k \in 1..Len(l) |->
                       IF mask_pre[k] /\ SumSeq(l[k]) = 0 THEN 1 ELSE 0]
        fo_next == [j \in 1..NCols(l) |->
                       IF mask_next[j] /\ SumSeq([i \in 1..Len(l) |-> l[i][j]]) = 0
                         THEN 1 ELSE 0]
    IN  [k \in 1..Len(l) |-> l[k] \o <<fo_pre[k]>>] \o << fo_next \o <<1>> >>

\* the permuted labels with the false-object column and row appended
AppendFalseObjects(l, mask_pre, mask_next) ==
    LET false_object_pre  == false_object([k \in 1..Len(l) |-> SumSeq(l[k])],
                                          mask_pre)
        false_object_next == false_object([j \in 1..NCols(l) |->
                                              SumSeq(Column(l, j))], mask_next)
    IN  [k \in 1..Len(l) |-> l[k] \o <<false_object_pre[k]>>]
            \o << false_object_next \o <<0>> >>

NotShuffled ==
    [done |-> FALSE, boxes_pre |-> << >>, mask_pre |-> << >>,
     boxes_next |-> << >>, mask_next |-> << >>, labels |-> << >>,
     indexes_pre |-> << >>, indexes_next |-> << >>, status |-> "none"]

\* ResizeShuffleBoxes.__call__ for the two shuffles drawn
ResizeShuffle(s, indexes_pre, indexes_next, max_object) ==
    LET size_pre   == Len(s.boxes_pre)
        size_next  == Len(s.boxes_next)
        mask_pre   == [k \in 1..max_object |-> indexes_pre[k] <= size_pre]
        mask_next  == [k \in 1..max_object |-> indexes_next[k] <= size_next]
        padded_pre == resize_f(s.boxes_pre, max_object)
        padded_next == resize_f(s.boxes_next, max_object)
        permuted   == PermuteLabels(s.labels, indexes_pre, indexes_next)
        fail(st)   == [NotShuffled EXCEPT !.status = st]
    IN  IF size_pre > max_object THEN fail("ValueError")
        ELSE IF ~s.img_next.present
          THEN [NotShuffled EXCEPT
                   !.done = TRUE, !.status = "ok",
                   !.boxes_pre = [k \in 1..max_object |-> padded_pre[indexes_pre[k]]],
                   !.mask_pre = mask_pre \o <<TRUE>>,
                   !.labels = s.labels,
                   !.indexes_pre = indexes_pre]
        ELSE IF size_next > max_object THEN fail("ValueError")
        ELSE IF s.labels = << >> THEN fail("TypeError")
        ELSE IF max_object > NRows(s.labels) \/ max_object > NCols(s.labels)
          THEN fail("IndexError")
        ELSE [done |-> TRUE, status |-> "ok",
              boxes_pre |-> [k \in 1..max_object |-> padded_pre[indexes_pre[k]]],
              mask_pre |-> mask_pre \o <<TRUE>>,
              boxes_next |-> [k \in 1..max_object |-> padded_next[indexes_next[k]]],
              mask_next |-> mask_next \o <<TRUE>>,
              labels |-> AppendFalseObjects(permuted, mask_pre, mask_next),
              indexes_pre |-> indexes_pre, indexes_next |-> indexes_next]

\* ------------------------------------------------------------ constructors
\* a constructor call: class, arguments, and the object or the exception
NotBuilt == [cls |-> "none", a |-> 0, b |-> 0, status |-> "none",
             lower |-> 0, upper |-> 0, range |-> 0]

Built(call, lower, upper) ==
    [call EXCEPT !.status = "ok", !.lower = lower, !.upper = upper,
                 !.range = upper - lower]

Raised(call) == [call EXCEPT !.status = "AssertionError"]

\* RandomContrast.__init__(lower, upper)
RandomContrast_init(call) ==
    IF call.b >= call.a /\ call.a >= 0 THEN Built(call, call.a, call.b)
    ELSE Raised(call)

\* RandomSaturation.__init__(lower, upper)
RandomSaturation_init(call) ==
    IF call.b >= call.a /\ call.a >= 0 THEN Built(call, call.a, call.b)
    ELSE Raised(call)

\* RandomHue.__init__(delta): the jitter range is [-delta, delta]
RandomHue_init(call) ==
    IF call.a >= 0 /\ call.a <= HueMax THEN Built(call, 0 - call.a, call.a)
    ELSE Raised(call)

\* RandomBrightness.__init__(delta): the jitter range is [-delta, delta]
RandomBrightness_init(call) ==
    IF call.a >= 0 /\ call.a <= BrightnessMax THEN Built(call, 0 - call.a, call.a)
    ELSE Raised(call)

\* MoveBoxes.__init__(offset_low, offset_high)
MoveBoxes_init(call) ==
    Built(call, Max2(call.a, 0), Max2(call.a, call.b))

\* ------------------------------------------------------------------ state
VARIABLES
    img_pre,      \* frame A: [present, h, w, flip]
    img_next,     \* frame B, NoImage when absent
    boxes_pre,    \* boxes of frame A: sequence of <<x1, y1, x2, y2>>
    boxes_next,   \* boxes of frame B, << >> when absent
    labels,       \* correspondence matrix (sequence of rows), << >> when absent
    err,          \* "none", or the exception that aborted the pipeline
    stage,        \* the transform of the chain that is applied next
    prev,         \* the sample given to the last transform
    last,         \* the last transform and its random draws
    shuffled,     \* the result of ResizeShuffleBoxes
    pc,           \* position inside RandomSampleCrop.__call__
    mode,         \* index of the sampling mode drawn
    trials,       \* trials made in the current loop over range(50)
    rounds,       \* loops over range(50) that ended without a result
    transform     \* the transform object under construction

vars == <<img_pre, img_next, boxes_pre, boxes_next, labels, err, stage, prev,
          last, shuffled, pc, mode, trials, rounds, transform>>

sample == [img_pre |-> img_pre, img_next |-> img_next, boxes_pre |-> boxes_pre,
           boxes_next |-> boxes_next, labels |-> labels]

NoDraw == [op |-> "none", mode |-> 0, w |-> 0, h |-> 0, left |-> 0, top |-> 0,
           ratio |-> 0, cropped |-> FALSE, rejected |-> "none"]

\* ----------------------------------------------------------------- inputs
FrameSizes == { <<5 * Scale, 5 * Scale>>, <<6 * Scale, 3 * Scale>> }

BoxA == <<0, 0, Scale, Scale>>
BoxB == <<1, 1, 2 * Scale + 1, 2 * Scale + 1>>
BoxC == <<Scale, 2 * Scale, 3 * Scale - 1, 5 * Scale - 1>>

BoxSets == {b \in { <<BoxB>>, <<BoxA, BoxC>>, <<BoxC, BoxB>>, <<BoxA, BoxB, BoxC>> } :
               Len(b) <= MaxObject}

\* binary na x nb matrices: no match, the diagonal, the anti-diagonal, and a
\* first row matched with every column
RawLabels(na, nb) ==
    { [i \in 1..na |-> [j \in 1..nb |-> 0]],
      [i \in 1..na |-> [j \in 1..nb |-> IF i = j THEN 1 ELSE 0]],
      [i \in 1..na |-> [j \in 1..nb |-> IF i + j = nb + 1 THEN 1 ELSE 0]],
      [i \in 1..na |-> [j \in 1..nb |-> IF i = 1 THEN 1 ELSE 0]] }

\* the matrix zero-padded to n x n
PadLabels(l, n) ==
    [i \in 1..n |-> [j \in 1..n |->
        IF i <= NRows(l) /\ j <= NCols(l) THEN l[i][j] ELSE 0]]

InitSample(size_pre, size_next, bp, bn, l) ==
    /\ img_pre = Image(size_pre[1], size_pre[2])
    /\ img_next = IF size_next = << >> THEN NoImage
                  ELSE Image(size_next[1], size_next[2])
    /\ boxes_pre = bp
    /\ boxes_next = bn
    /\ labels = l
    /\ err = "none"
    /\ prev = sample
    /\ last = NoDraw
    /\ shuffled = NotShuffled
    /\ mode = 0
    /\ trials = 0
    /\ rounds = 0
    /\ transform = NotBuilt

\* the sample handed to the chain Expand, RandomSampleCrop, RandomMirror: a
\* single frame, or a pair whose matrix is na x nb or padded to the capacity;
\* the second frame of a pair has the size of the first or is a square one
Init ==
    /\ pc = "idle"
    /\ stage = "expand"
    /\ \E size_pre \in FrameSizes, bp \in BoxSets :
          \/ InitSample(size_pre, << >>, bp, << >>, << >>)
          \/ \E size_next \in {size_pre, <<5 * Scale, 5 * Scale>>} :
             \E bn \in BoxSets :
             \E raw \in RawLabels(Len(bp), Len(bn)) :
             \E l \in {raw, PadLabels(raw, MaxObject)} :
                InitSample(size_pre, size_next, bp, bn, l)

\* ---------------------------------------------------------------- actions
Running == err = "none" /\ pc = "idle"

SetSample(r) ==
    /\ img_pre' = r.img_pre
    /\ img_next' = r.img_next
    /\ boxes_pre' = r.boxes_pre
    /\ boxes_next' = r.boxes_next
    /\ labels' = r.labels

\* RandomMirror.__call__
RandomMirror ==
    /\ Running /\ stage = "mirror"
    /\ \E coin \in {0, 1} :
          LET res_pre == mirror(img_pre, boxes_pre)
              res_next == mirror(img_next, boxes_next)
          IN  /\ IF coin = 1
                   THEN /\ img_pre' = res_pre.image
                        /\ boxes_pre' = res_pre.boxes
                        /\ IF img_next.present
                             THEN /\ img_next' = res_next.image
                                  /\ boxes_next' = res_next.boxes
                             ELSE UNCHANGED <<img_next, boxes_next>>
                   ELSE UNCHANGED <<img_pre, boxes_pre, img_next, boxes_next>>
              /\ last' = [NoDraw EXCEPT !.op = "mirror", !.mode = coin]
    /\ prev' = sample
    /\ stage' = "shuffle"
    /\ UNCHANGED <<labels, err, shuffled, pc, mode, trials, rounds, transform>>

\* Expand.__call__
Expand ==
    /\ Running /\ stage = "expand"
    /\ prev' = sample
    /\ stage' = "crop"
    /\ \/ /\ last' = [NoDraw EXCEPT !.op = "expand", !.mode = 1]
          /\ UNCHANGED <<img_pre, img_next, boxes_pre, boxes_next, err>>
       \/ \E ratio \in DrawRatio :
          \E left \in DrawShift(img_pre.w, ratio), top \in DrawShift(img_pre.h, ratio) :
             LET e_pre == expand(img_pre, img_pre.h, img_pre.w, ratio, left, top)
                 e_next == expand(img_next, img_pre.h, img_pre.w, ratio, left, top)
             IN  /\ last' = [NoDraw EXCEPT !.op = "expand", !.ratio = ratio,
                                           !.left = left, !.top = top]
                 /\ img_pre' = e_pre.image
                 /\ boxes_pre' = ShiftBoxes(boxes_pre, left, top)
                 /\ IF ~img_next.present
                      THEN UNCHANGED <<img_next, boxes_next, err>>
                    ELSE IF e_next.status # "ok"
                      THEN /\ err' = e_next.status
                           /\ UNCHANGED <<img_next, boxes_next>>
                    ELSE /\ img_next' = e_next.image
                         /\ boxes_next' = ShiftBoxes(boxes_next, left, top)
                         /\ err' = err
    /\ UNCHANGED <<labels, shuffled, pc, mode, trials, rounds, transform>>

\* the draws of one trial that passes the aspect-ratio test, and its outcome;
\* of the sizes on the grid the smallest and the largest are drawn
TrialOutcomes(s, m) ==
    {[draw |-> [NoDraw EXCEPT !.op = "crop", !.mode = m, !.w = d[1], !.h = d[2],
                              !.left = d[3], !.top = d[4], !.cropped = TRUE],
      res |-> Trial(s, sample_options[m], d[1], d[2], d[3], d[4], MaxObject)] :
        d \in {x \in Extremes(DrawSize(s.img_pre.w)) \X Extremes(DrawSize(s.img_pre.h))
                       \X (0..s.img_pre.w) \X (0..s.img_pre.h) :
                  /\ ~BadAspect(x[1], x[2])
                  /\ x[3] \in DrawOffset(s.img_pre.w, x[1])
                  /\ x[4] \in DrawOffset(s.img_pre.h, x[2])}}

\* RandomSampleCrop.__call__ as one step: it returns the input when the mode
\* None is drawn, the result of an accepted trial, or raises
RandomSampleCrop ==
    /\ Running /\ stage = "crop"
    /\ prev' = sample
    /\ stage' = "mirror"
    /\ \/ /\ last' = [NoDraw EXCEPT !.op = "crop", !.mode = 1]
          /\ UNCHANGED <<img_pre, img_next, boxes_pre, boxes_next, labels, err>>
       \/ \E m \in 2..Len(sample_options) :
          \E o \in TrialOutcomes(sample, m) :
             /\ o.res.status # "continue"
             /\ last' = o.draw
             /\ SetSample(o.res)
             /\ err' = IF o.res.status = "return" THEN err ELSE o.res.status
    /\ UNCHANGED <<shuffled, pc, mode, trials, rounds, transform>>

\* ResizeShuffleBoxes.__call__
ResizeShuffleBoxes ==
    /\ Running /\ stage = "shuffle"
    /\ stage' = "done"
    /\ \E indexes_pre \in Shuffles(MaxObject) :
       \E indexes_next \in IF img_next.present THEN Shuffles(MaxObject)
                           ELSE { << >> } :
          LET r == ResizeShuffle(sample, indexes_pre, indexes_next, MaxObject)
          IN  /\ shuffled' = r
              /\ err' = IF r.status = "ok" THEN err ELSE r.status
    /\ UNCHANGED <<img_pre, img_next, boxes_pre, boxes_next, labels, prev,
                   last, pc, mode, trials, rounds, transform>>

\* the geometric transforms of the training chain, in its order
Next == Expand \/ RandomSampleCrop \/ RandomMirror

Spec == Init /\ [][Next]_vars

\* ------------------------------------------- ResizeShuffleBoxes on its own
\* the sample handed to ResizeShuffleBoxes: a single frame, or a pair whose
\* matrix is that of the boxes present or of a larger box set (boxes were
\* dropped by a crop), as it is or padded to the capacity
InitShuffle ==
    /\ pc = "idle"
    /\ stage = "shuffle"
    /\ \E bp \in BoxSets :
          \/ InitSample(<<5 * Scale, 5 * Scale>>, << >>, bp, << >>, << >>)
          \/ \E bn \in BoxSets :
             \E na \in Len(bp)..MaxObject, nb \in Len(bn)..MaxObject :
             \E raw \in RawLabels(na, nb) :
             \E l \in {raw, PadLabels(raw, MaxObject)} :
                /\ na = Len(bp) \/ nb = Len(bn)
                /\ InitSample(<<5 * Scale, 5 * Scale>>, <<5 * Scale, 5 * Scale>>,
                              bp, bn, l)

NextShuffle == ResizeShuffleBoxes

SpecShuffle == InitShuffle /\ [][NextShuffle]_vars

\* ------------------------------------- RandomSampleCrop.__call__, stepwise
\* the call has been entered with a single frame, or with a pair of frames
\* of one size and a matrix padded to the capacity; the second frame shows
\* the boxes of the first, or one box in the corner of the frame
InitTrials ==
    /\ pc = "mode"
    /\ stage = "crop"
    /\ \E size_pre \in FrameSizes, bp \in BoxSets :
          \/ InitSample(size_pre, << >>, bp, << >>, << >>)
          \/ \E bn \in {bp, <<BoxA>>} :
                InitSample(size_pre, size_pre, bp, bn,
                           PadLabels([i \in 1..Len(bp) |-> [j \in 1..Len(bn) |->
                                         IF i = j THEN 1 ELSE 0]], MaxObject))

\* while True: mode = random.choice(self.sample_options)
ChooseMode ==
    /\ pc = "mode" /\ err = "none" /\ rounds < MaxRounds
    /\ \E m \in 1..Len(sample_options) :
          /\ mode' = m
          /\ pc' = IF sample_options[m].whole THEN "done" ELSE "trial"
          /\ last' = IF sample_options[m].whole
                       THEN [NoDraw EXCEPT !.op = "crop", !.mode = m]
                       ELSE last
    /\ trials' = 0
    /\ UNCHANGED <<img_pre, img_next, boxes_pre, boxes_next, labels, err, stage,
                   prev, shuffled, rounds, transform>>

\* the record of a trial that ended in continue: the mode and the test that
\* rejected it ("aspect", or the crop of the frame "pre" or "next")
Rejection(m, test) == [NoDraw EXCEPT !.op = "crop", !.mode = m, !.rejected = test]

\* one pass of the body of: for _ in range(50)
TrialStep ==
    /\ pc = "trial" /\ err = "none" /\ trials < MaxTrials
    /\ trials' = trials + 1
    /\ \/ /\ \E w \in DrawSize(img_pre.w), h \in DrawSize(img_pre.h) :
                BadAspect(w, h)
          /\ last' = Rejection(mode, "aspect")
          /\ UNCHANGED <<img_pre, img_next, boxes_pre, boxes_next, labels, err,
                         pc>>
       \/ \E o \in TrialOutcomes(sample, mode) :
             /\ SetSample(o.res)
             /\ IF o.res.status = "continue"
                  THEN /\ last' = Rejection(mode, o.res.rejected)
                       /\ UNCHANGED <<err, pc>>
                  ELSE /\ last' = o.draw
                       /\ err' = IF o.res.status = "return" THEN err
                                 ELSE o.res.status
                       /\ pc' = "done"
    /\ UNCHANGED <<stage, prev, shuffled, mode, rounds, transform>>

\* the loop over range(50) ends without a result: back to while True
ForExhausted ==
    /\ pc = "trial" /\ err = "none" /\ trials = MaxTrials
    /\ pc' = "mode"
    /\ rounds' = rounds + 1
    /\ trials' = 0
    /\ UNCHANGED <<img_pre, img_next, boxes_pre, boxes_next, labels, err, stage,
                   prev, last, shuffled, mode, transform>>

NextTrials == ChooseMode \/ TrialStep \/ ForExhausted

SpecTrials == InitTrials /\ [][NextTrials]_vars

\* ------------------------------------------ construction of the transforms
\* the argument values drawn for the constructors
ArgValues ==
    ((0 - MaxArg)..MaxArg)
        \cup {HueMax, HueMax + 1, BrightnessMax, BrightnessMax + 1}

\* a constructor is about to be called with arguments a (and b)
InitConfig ==
    /\ pc = "idle"
    /\ stage = "construct"
    /\ img_pre = NoImage /\ img_next = NoImage
    /\ boxes_pre = << >> /\ boxes_next = << >> /\ labels = << >>
    /\ err = "none"
    /\ prev = sample
    /\ last = NoDraw
    /\ shuffled = NotShuffled
    /\ mode = 0 /\ trials = 0 /\ rounds = 0
    /\ \E a \in ArgValues :
          \/ \E cls \in {"RandomContrast", "RandomSaturation", "MoveBoxes"} :
             \E b \in ArgValues :
                transform = [NotBuilt EXCEPT !.cls = cls, !.a = a, !.b = b]
          \/ \E cls \in {"RandomHue", "RandomBrightness"} :
                transform = [NotBuilt EXCEPT !.cls = cls, !.a = a]

\* the call of the constructor of cls ends with the object or the exception
Construct(cls, built) ==
    /\ stage = "construct" /\ transform.cls = cls
    /\ transform' = built
    /\ stage' = "built"
    /\ err' = IF built.status = "ok" THEN err ELSE built.status
    /\ UNCHANGED <<img_pre, img_next, boxes_pre, boxes_next, labels, prev, last,
                   shuffled, pc, mode, trials, rounds>>

NewRandomContrast == Construct("RandomContrast", RandomContrast_init(transform))
NewRandomSaturation == Construct("RandomSaturation", RandomSaturation_init(transform))
NewRandomHue == Construct("RandomHue", RandomHue_init(transform))
NewRandomBrightness == Construct("RandomBrightness", RandomBrightness_init(transform))
NewMoveBoxes == Construct("MoveBoxes", MoveBoxes_init(transform))

NextConfig ==
    \/ NewRandomContrast \/ NewRandomSaturation \/ NewRandomHue
    \/ NewRandomBrightness \/ NewMoveBoxes

SpecConfig == InitConfig /\ [][NextConfig]_vars

\* crop trials made since the call was entered
TrialsMade == rounds * MaxTrials + trials

\* ---------------------------------------------------------------- claims
\* C1: RandomSampleCrop.__call__ returns after at most 50 x (number of
\* sampling modes) crop trials, whatever the sample and the random draws.
C1_TrialsBounded == TrialsMade <= MaxTrials * Len(sample_options)

\* the last transform was RandomSampleCrop and it returned a cropped sample
Cropped == last.op = "crop" /\ last.cropped /\ err = "none"

\* the IoU of box b against the rectangle drawn by the last crop
LastOverlap(b) ==
    iou(<<b[1], b[2], b[3] - b[1], b[4] - b[2]>>,
        <<last.left, last.top, last.w, last.h>>)

\* C2: every accepted crop under mode (min_iou, max_iou) has
\* min(IoU) >= min_iou and max(IoU) <= max_iou over the ground-truth boxes.
C2_AcceptedCropMeetsIoU ==
    Cropped =>
        \A b \in {prev.boxes_pre[i] : i \in 1..Len(prev.boxes_pre)}
                 \cup {prev.boxes_next[i] : i \in 1..Len(prev.boxes_next)} :
            /\ ~OverlapLt(LastOverlap(b), ModeMin(sample_options[last.mode]))
            /\ ~OverlapGt(LastOverlap(b), ModeMax(sample_options[last.mode]))

\* the integer rectangle of the last crop
LastRect ==
    << (last.left \div Scale) * Scale, (last.top \div Scale) * Scale,
       ((last.left + last.w) \div Scale) * Scale,
       ((last.top + last.h) \div Scale) * Scale >>

\* indices of the boxes whose center lies strictly inside the rectangle
Survivors(boxes, rect) ==
    {i \in 1..Len(boxes) :
        /\ 2 * rect[1] < boxes[i][1] + boxes[i][3]
        /\ boxes[i][1] + boxes[i][3] < 2 * rect[3]
        /\ 2 * rect[2] < boxes[i][2] + boxes[i][4]
        /\ boxes[i][2] + boxes[i][4] < 2 * rect[4]}

\* the k-th smallest element of a set of numbers
Kth(S, k) == CHOOSE i \in S : Cardinality({j \in S : j < i}) = k - 1

\* C3: a cropped paired sample keeps the shape of the correspondence matrix,
\* its entry (k, l) is the input entry of the k-th surviving box of frame A
\* and the l-th surviving box of frame B, every other entry is zero, and the
\* boxes returned are exactly the survivors.
C3_LabelsFollowSurvivors ==
    (Cropped /\ img_next.present) =>
        LET SA == Survivors(prev.boxes_pre, LastRect)
            SB == Survivors(prev.boxes_next, LastRect)
        IN  /\ NRows(labels) = NRows(prev.labels)
            /\ \A k \in 1..NRows(labels) : Len(labels[k]) = NCols(prev.labels)
            /\ Len(boxes_pre) = Cardinality(SA)
            /\ Len(boxes_next) = Cardinality(SB)
            /\ \A k \in 1..NRows(labels) : \A l \in 1..NCols(labels) :
                  labels[k][l] =
                     IF k <= Cardinality(SA) /\ l <= Cardinality(SB)
                       THEN prev.labels[Kth(SA, k)][Kth(SB, l)]
                       ELSE 0

\* a crop dropped the first box of frame A and the match of its second box
\* moved up to row 1
C3_Witness ==
    /\ Cropped /\ img_next.present
    /\ Len(boxes_pre) < Len(prev.boxes_pre)
    /\ 1 \notin Survivors(prev.boxes_pre, LastRect)
    /\ \E l \in 1..NCols(labels) : labels[1][l] = 1 /\ prev.labels[1][l] = 0

ValidBox(b, image) ==
    /\ b[1] <= b[3] /\ b[2] <= b[4]
    /\ 0 <= b[1] /\ b[3] < image.w
    /\ 0 <= b[2] /\ b[4] < image.h

\* C4: after any sequence of RandomMirror, Expand and RandomSampleCrop every
\* box has x1 <= x2, y1 <= y2 and lies in [0, width) x [0, height).
C4_BoxesStayValid ==
    err = "none" =>
        /\ \A i \in 1..Len(boxes_pre) : ValidBox(boxes_pre[i], img_pre)
        /\ \A i \in 1..Len(boxes_next) : ValidBox(boxes_next[i], img_next)

\* C5: ResizeShuffleBoxes given a pair with N_A x N_B labels (N_A, N_B <= M)
\* succeeds and returns an (M+1) x (M+1) matrix.
C5_ShuffleAcceptsRawLabels ==
    ( /\ shuffled.status # "none"
      /\ img_next.present
      /\ Len(boxes_pre) <= MaxObject /\ Len(boxes_next) <= MaxObject
      /\ NRows(labels) = Len(boxes_pre) /\ NCols(labels) = Len(boxes_next) )
    => /\ shuffled.done
       /\ Len(shuffled.labels) = MaxObject + 1
       /\ \A k \in 1..Len(shuffled.labels) :
             Len(shuffled.labels[k]) = MaxObject + 1

\* ResizeShuffleBoxes returned for a pair
ShuffledPair == shuffled.done /\ img_next.present

\* sum of the first MaxObject entries of row k / column l of the output
BlockRowSum(k) == SumSeq([l \in 1..MaxObject |-> shuffled.labels[k][l]])
BlockColSum(l) == SumSeq([k \in 1..MaxObject |-> shuffled.labels[k][l]])

\* C6: entry (i, M) is 1 iff slot i of frame A holds a real box and row i of
\* the permuted M x M block sums to zero, entry (M, j) is 1 iff slot j of
\* frame B holds a real box and column j sums to zero; otherwise they are 0.
C6_NoMatchEntries ==
    ShuffledPair =>
        /\ \A i \in 1..MaxObject :
              shuffled.labels[i][MaxObject + 1] =
                 IF shuffled.boxes_pre[i] # InfBox /\ BlockRowSum(i) = 0
                   THEN 1 ELSE 0
        /\ \A j \in 1..MaxObject :
              shuffled.labels[MaxObject + 1][j] =
                 IF shuffled.boxes_next[j] # InfBox /\ BlockColSum(j) = 0
                   THEN 1 ELSE 0

\* the three cases in one output: an unmatched real box, a matched real box
\* and a padding slot
C6_Witness ==
    /\ ShuffledPair
    /\ \E i \in 1..MaxObject : shuffled.labels[i][MaxObject + 1] = 1
    /\ \E i \in 1..MaxObject :
          shuffled.boxes_pre[i] # InfBox /\ shuffled.labels[i][MaxObject + 1] = 0
    /\ \E j \in 1..MaxObject :
          shuffled.boxes_next[j] = InfBox /\ BlockColSum(j) = 0
             /\ shuffled.labels[MaxObject + 1][j] = 0

Ones(l, n, m) == SumSeq([i \in 1..n |-> SumSeq([j \in 1..m |-> l[i][j]])])

\* the slot of the shuffled box set that holds row i of the padded box set
SlotOf(indexes, i) == CHOOSE k \in 1..MaxObject : indexes[k] = i

\* C8: ResizeShuffleBoxes only reorders matches: output entry (k, l) of the
\* M x M block is input entry (permA[k], permB[l]); the number of 1s is
\* unchanged; box i of frame A and box j of frame B, found again in their
\* new slots, are matched after the shuffle iff they were matched before.
C8_ShuffleKeepsMatches ==
    ShuffledPair =>
        /\ \A k, l \in 1..MaxObject :
              shuffled.labels[k][l] =
                 labels[shuffled.indexes_pre[k]][shuffled.indexes_next[l]]
        /\ Ones(shuffled.labels, MaxObject, MaxObject)
              = Ones(labels, MaxObject, MaxObject)
        /\ \A i \in 1..Len(boxes_pre), j \in 1..Len(boxes_next) :
              LET k == SlotOf(shuffled.indexes_pre, i)
                  l == SlotOf(shuffled.indexes_next, j)
              IN  /\ shuffled.boxes_pre[k] = boxes_pre[i]
                  /\ shuffled.boxes_next[l] = boxes_next[j]
                  /\ shuffled.labels[k][l] = 1 <=> labels[i][j] = 1

\* a match that the two shuffles moved to another row and another column
C8_Witness ==
    /\ ShuffledPair
    /\ \E i \in 1..Len(boxes_pre), j \in 1..Len(boxes_next) :
          /\ labels[i][j] = 1
          /\ SlotOf(shuffled.indexes_pre, i) # i
          /\ SlotOf(shuffled.indexes_next, j) # j
          /\ SlotOf(shuffled.indexes_pre, i) # SlotOf(shuffled.indexes_next, j)
          /\ labels[SlotOf(shuffled.indexes_pre, i)][SlotOf(shuffled.indexes_next, j)] = 0

\* the mask and the boxes of one frame after the shuffle
MaskMatchesBoxes(boxes, out, mask, indexes) ==
    /\ Len(out) = MaxObject
    /\ Len(mask) = MaxObject + 1
    /\ mask[MaxObject + 1]
    /\ \A k \in 1..MaxObject :
          /\ mask[k] <=> indexes[k] - 1 < Len(boxes)
          /\ mask[k] <=> (\E i \in 1..Len(boxes) : out[k] = boxes[i])
          /\ ~mask[k] <=> out[k] = InfBox
    /\ Cardinality({k \in 1..MaxObject : mask[k]}) = Len(boxes)

\* the box set padded to the capacity, before the shuffle
PaddedBeforeShuffle(boxes) ==
    LET padded == resize_f(boxes, MaxObject)
    IN  /\ Len(padded) = MaxObject
        /\ \A i \in 1..MaxObject :
              padded[i] = IF i <= Len(boxes) THEN boxes[i] ELSE InfBox

\* C9: after ResizeShuffleBoxes the box set has M rows, mask[k] =
\* (permutation[k] < N), mask[k] is True exactly on the rows holding an
\* original box and False exactly on the sentinel rows, N of the first M
\* entries are True and entry M is True; before the shuffle the first N rows
\* are the originals and the other M - N rows the sentinel.
C9_MaskMarksRealBoxes ==
    shuffled.done =>
        /\ MaskMatchesBoxes(boxes_pre, shuffled.boxes_pre, shuffled.mask_pre,
                            shuffled.indexes_pre)
        /\ PaddedBeforeShuffle(boxes_pre)
        /\ img_next.present =>
              /\ MaskMatchesBoxes(boxes_next, shuffled.boxes_next,
                                  shuffled.mask_next, shuffled.indexes_next)
              /\ PaddedBeforeShuffle(boxes_next)

\* a shuffle that put a sentinel row in front of a real box
C9_Witness ==
    /\ shuffled.done
    /\ Len(boxes_pre) < MaxObject
    /\ ~shuffled.mask_pre[1]
    /\ shuffled.boxes_pre[1] = InfBox
    /\ \E k \in 2..MaxObject : shuffled.mask_pre[k]

\* the two frames are present and of one size
SameSize == img_next.present /\ img_pre.h = img_next.h /\ img_pre.w = img_next.w

\* C10: a transform of a pair of frames of one size uses one draw for both:
\* the frames are flipped together or not at all, their boxes are moved by
\* one offset by Expand, and the frames are again of one size afterwards.
C10_SharedDraw ==
    [][ (SameSize /\ stage' # stage /\ err' = "none") =>
           /\ SameSize'
           /\ (img_pre'.flip # img_pre.flip) <=> (img_next'.flip # img_next.flip)
           /\ last'.op = "expand" =>
                 \E dx \in 0..(img_pre'.w), dy \in 0..(img_pre'.h) :
                    /\ \A i \in 1..Len(boxes_pre) :
                          /\ boxes_pre'[i][1] = boxes_pre[i][1] + dx
                          /\ boxes_pre'[i][2] = boxes_pre[i][2] + dy
                    /\ \A i \in 1..Len(boxes_next) :
                          /\ boxes_next'[i][1] = boxes_next[i][1] + dx
                          /\ boxes_next'[i][2] = boxes_next[i][2] + dy
                    /\ img_pre'.w >= img_pre.w + dx
       ]_vars

\* a pair of one size that was cropped to a smaller size
C10_Witness ==
    /\ SameSize /\ err = "none" /\ stage = "mirror"
    /\ Cropped
    /\ prev.img_pre.h = prev.img_next.h /\ prev.img_pre.w = prev.img_next.w
    /\ img_pre.w < prev.img_pre.w
    /\ boxes_pre # prev.boxes_pre

\* the arguments of the constructor call are an invalid range
InvalidRange ==
    IF transform.cls \in {"RandomHue", "RandomBrightness"}
      THEN transform.a < 0
      ELSE transform.b < transform.a \/ transform.a < 0

\* C11: a transform constructed with an invalid range (upper < lower, or a
\* negative delta / offset) fails at construction; neither is it built nor
\* are its values adjusted.
C11_InvalidRangeFailsFast ==
    (stage = "built" /\ InvalidRange) => transform.status = "AssertionError"

\* the last transform was RandomSampleCrop, called on a single frame
SingleFrameCrop == last.op = "crop" /\ stage = "mirror" /\ ~prev.img_next.present

\* C12: on a single-frame sample RandomSampleCrop does not fail: for every
\* mode and rectangle it returns frame B, boxes B and the absent labels as
\* given, and frame A either unmodified or cropped with a surviving box.
C12_SingleFrameCropReturns ==
    SingleFrameCrop =>
        /\ err = "none"
        /\ img_next = prev.img_next
        /\ boxes_next = prev.boxes_next
        /\ labels = << >>
        /\ \/ img_pre = prev.img_pre /\ boxes_pre = prev.boxes_pre
           \/ last.cropped /\ Len(boxes_pre) >= 1

\* this step is a trial in which the crop of frame A was accepted and the
\* crop of frame B rejected
NextRejected == trials' = trials + 1 /\ last'.rejected = "next"

\* C13 as stated: a rejection of frame B's crop sends the call back to the
\* draw of a new mode.
C13_RejectionRedrawsMode ==
    [][ NextRejected => pc' = "mode" ]_vars

\* C13: on a pair, a rejection of frame B's crop invalidates the joint
\* attempt: the sample stays as it was given, nothing of frame A's crop is
\* kept, and the call stays in the trial loop under the same mode, where the
\* next trial draws a new rectangle; a mode is drawn again only after all 50
\* trials of the loop are used up.
C13_RejectionRedrawsRectangle ==
    [][ /\ NextRejected =>
             /\ sample' = sample /\ sample' = prev
             /\ err' = "none"
             /\ mode' = mode
             /\ pc' = "trial"
        /\ (pc = "trial" /\ pc' = "mode") => trials = MaxTrials ]_vars

C13_Witness ==
    /\ last.rejected = "next" /\ pc = "trial" /\ trials >= 2
    /\ img_next.present /\ sample = prev

\* the matrix given to ResizeShuffleBoxes is M x M with at most one 1 in a
\* row and in a column and zeros in the rows and columns of padding slots
WellFormedLabels ==
    /\ NRows(labels) = MaxObject /\ NCols(labels) = MaxObject
    /\ \A i \in 1..MaxObject :
          /\ SumSeq(labels[i]) <= 1
          /\ SumSeq(Column(labels, i)) <= 1
          /\ i > Len(boxes_pre) => SumSeq(labels[i]) = 0
          /\ i > Len(boxes_next) => SumSeq(Column(labels, i)) = 0

\* sum of the M + 1 entries of row k / column l of the output
FullRowSum(k) == SumSeq(shuffled.labels[k])
FullColSum(l) == SumSeq(Column(shuffled.labels, l))

\* C14: for a well-formed M x M matrix, every row k < M of the
\* (M+1) x (M+1) output sums to 1 when slot k of frame A holds a real box
\* (one match or the no-match entry, never both) and to 0 when it is
\* padding, and so does every column l < M for the slots of frame B.
C14_RowsAndColumnsSumToOne ==
    (ShuffledPair /\ WellFormedLabels) =>
        /\ \A k \in 1..MaxObject :
              FullRowSum(k) = IF shuffled.boxes_pre[k] # InfBox THEN 1 ELSE 0
        /\ \A l \in 1..MaxObject :
              FullColSum(l) = IF shuffled.boxes_next[l] # InfBox THEN 1 ELSE 0

\* a matched slot, an unmatched real slot and a padding slot, after a shuffle
\* that moved the rows
C14_Witness ==
    /\ ShuffledPair /\ WellFormedLabels
    /\ shuffled.indexes_pre[1] # 1
    /\ \E k \in 1..MaxObject :
          shuffled.boxes_pre[k] # InfBox /\ BlockRowSum(k) = 1
    /\ \E l \in 1..MaxObject :
          shuffled.boxes_next[l] # InfBox /\ BlockColSum(l) = 0
             /\ shuffled.labels[MaxObject + 1][l] = 1
    /\ \E k \in 1..MaxObject : shuffled.boxes_pre[k] = InfBox

====
